---- MODULE Spec2Model ----
(***************************************************************************)
(* A model of astroquery/esasky/core.py (class ESASkyClass): the public    *)
(* query operations (query_region_maps, query_region_catalogs,             *)
(* query_object_maps, query_object_catalogs) and the download operations   *)
(* (get_maps, get_images), with the registry, the TAP service and the      *)
(* product server as the environment.                                      *)
(*                                                                         *)
(* Strings the code transforms (mission names, folders) are sequences of   *)
(* one-character strings, so that lower(), upper() and "+" are computed.   *)
(* Opaque values (positions, radii) are tagged records.                    *)
(*                                                                         *)
(* A behaviour of Spec is one call of a public method on a fresh           *)
(* instance: entry (validation, selector resolution), one step per mission *)
(* of the store loop and of the download loop, and the return.  The        *)
(* registry documents are fixed; the answers of the TAP service and the    *)
(* failures of fetches and downloads are chosen freely at each step.       *)
(*                                                                         *)
(* SpecSession lets calls of query_region_* follow one another on the      *)
(* same instance.  SpecCatalogQuery, SpecLookup, SpecFileName and          *)
(* SpecHerschel apply one private helper (_build_catalog_query, the        *)
(* registry lookups, _extract_file_name_from_response_header,              *)
(* _get_herschel_observation) to arguments drawn from bounded sets.        *)
(***************************************************************************)
EXTENDS Integers, Sequences, FiniteSets, TLC

\* ---------------------------------------------------------------- bounds
MaxSel == 2        \* longest list of names a caller passes as selector
MaxRows == 2       \* most rows a TAP query returns
MaxTables == 2     \* most tables in a TableList handed to get_maps

\* ------------------------------------------------------- characters, str
UpperChars == <<"A","B","C","D","E","F","G","H","I","J","K","L","M",
                "N","O","P","Q","R","S","T","U","V","W","X","Y","Z">>
LowerChars == <<"a","b","c","d","e","f","g","h","i","j","k","l","m",
                "n","o","p","q","r","s","t","u","v","w","x","y","z">>

LowerOf == [c \in {UpperChars[i] : i \in 1..26} |->
              LowerChars[CHOOSE i \in 1..26 : UpperChars[i] = c]]
UpperOf == [c \in {LowerChars[i] : i \in 1..26} |->
              UpperChars[CHOOSE i \in 1..26 : LowerChars[i] = c]]

CharLower(c) == IF c \in DOMAIN LowerOf THEN LowerOf[c] ELSE c
CharUpper(c) == IF c \in DOMAIN UpperOf THEN UpperOf[c] ELSE c

\* str.lower() and str.upper()
Lower(s) == [i \in 1..Len(s) |-> CharLower(s[i])]
Upper(s) == [i \in 1..Len(s) |-> CharUpper(s[i])]

\* ------------------------------------------------------- class constants
ALL_STRING == <<"a","l","l">>
MAPS_STRING == <<"M","a","p","s">>
HERSCHEL_STRING == <<"h","e","r","s","c","h","e","l">>
INTEGRAL_STRING == <<"i","n","t","e","g","r","a","l">>
CATALOGS_STRING == "catalogs"
OBSERVATIONS_STRING == "observations"
SLASH == <<"/">>

\* ------------------------------------------------------------ python values
\* objects the code passes around whole (responses, exceptions, messages)
Object(t, v, n, from) == [t |-> t, v |-> v, n |-> n, from |-> from]
None == [t |-> "None"]
NoError == [type |-> "none", args |-> <<>>]
PyStr(s) == [t |-> "str", v |-> s]
PyInt(digits) == [t |-> "int", v |-> digits]
PyList(l) == [t |-> "list", v |-> l]

\* a dict keeps insertion order: a sequence of <<key, value>> pairs
Keys(d) == [i \in 1..Len(d) |-> d[i][1]]
HasKey(d, k) == \E i \in 1..Len(d) : d[i][1] = k
Get(d, k) == d[CHOOSE i \in 1..Len(d) : d[i][1] = k][2]
Put(d, k, v) ==
    IF HasKey(d, k)
    THEN [i \in 1..Len(d) |-> IF d[i][1] = k THEN <<k, v>> ELSE d[i]]
    ELSE Append(d, <<k, v>>)

\* a call's result: a returned value or a raised exception, with the network
\* requests issued on the way
Return(value, requests) ==
    [kind |-> "return", value |-> value, error |-> NoError, net |-> requests]
\* an exception of class `type` built as type(message): args = (message,)
Raise(type, message, requests) ==
    [kind |-> "raise", value |-> None,
     error |-> [type |-> type, args |-> <<Object("str", message, 0, "")>>],
     net |-> requests]
\* a network request: the registry document, the TAP endpoint or a product url
Request(kind, what, n) == [kind |-> kind, what |-> what, n |-> n]
NoOutcome == [kind |-> "none", value |-> None, error |-> NoError, net |-> <<>>]

\* commons.TableList built from a mapping: the mapping of names to tables
TableList(d) == [t |-> "TableList", v |-> d]

\* ------------------------------------------------------------ environment
\* the registry documents served at <base>/observations and <base>/catalogs
ObservationsJson ==
    << [mission |-> <<"H","S","T">>, tapTable |-> "mv_hst", isSurveyMission |-> FALSE],
       [mission |-> <<"I","n","t","e","g","r","a","l">>, tapTable |-> "mv_integral",
        isSurveyMission |-> TRUE],
       [mission |-> <<"H","e","r","s","c","h","e","l">>, tapTable |-> "mv_herschel",
        isSurveyMission |-> FALSE] >>
CatalogsJson ==
    << [mission |-> <<"G","a","i","a">>, tapTable |-> "cat_gaia", isSurveyMission |-> FALSE],
       [mission |-> <<"H","s","c">>, tapTable |-> "cat_hsc", isSurveyMission |-> FALSE] >>

RegistryDocument(object_name) ==
    IF object_name = OBSERVATIONS_STRING THEN ObservationsJson ELSE CatalogsJson

\* _fetch_and_parse_json answering from a document fetched before
FetchAndParseJson_Kept(object_name, fetchOk) ==
    Return(RegistryDocument(object_name), <<>>)

\* _fetch_and_parse_json: one GET of <base>/<object_name>; urlopen raises when
\* the fetch fails
FetchAndParseJson(object_name, fetchOk) ==
    IF fetchOk
    THEN Return(RegistryDocument(object_name), <<Request("registry", object_name, 0)>>)
    ELSE Raise("URLError", "urlopen error", <<Request("registry", object_name, 0)>>)

JsonObjectFieldToList(json) == [i \in 1..Len(json) |-> PyStr(json[i].mission)]

\* list_maps: the mission names of the observations document
ListMaps(fetchOk) ==
    LET r == FetchAndParseJson(OBSERVATIONS_STRING, fetchOk)
    IN  IF r.kind = "raise" THEN r
        ELSE Return(JsonObjectFieldToList(r.value), r.net)

\* list_catalogs: the mission names of the catalogs document
ListCatalogs(fetchOk) ==
    LET r == FetchAndParseJson(CATALOGS_STRING, fetchOk)
    IN  IF r.kind = "raise" THEN r
        ELSE Return(JsonObjectFieldToList(r.value), r.net)

\* ------------------------------------------------------------- validation
SanatizeInputPosition(position) ==
    IF position.t = "str" \/ position.t = "SkyCoord"
    THEN Return(position, <<>>)
    ELSE Raise("ValueError", "Position must be either a string or astropy.coordinates", <<>>)

SanatizeInputRadius(radius) ==
    IF radius.t = "str" \/ radius.t = "Quantity"
    THEN Return(radius, <<>>)
    ELSE Raise("ValueError", "Radius must be either a string or astropy.units.Quantity", <<>>)

SanatizeInputMission(missions, fetchOk) ==
    IF missions.t = "list" THEN Return(missions.v, <<>>)
    ELSE IF missions.t = "str"
    THEN IF Lower(missions.v) = ALL_STRING
         THEN ListMaps(fetchOk)
         ELSE Return(<<PyStr(missions.v)>>, <<>>)
    ELSE Raise("ValueError", "Mission must be either a string or a list of missions", <<>>)

SanatizeInputCatalogs(catalogs, fetchOk) ==
    IF catalogs.t = "list" THEN Return(catalogs.v, <<>>)
    ELSE IF catalogs.t = "str"
    THEN IF Lower(catalogs.v) = ALL_STRING
         THEN ListMaps(fetchOk)
         ELSE Return(<<PyStr(catalogs.v)>>, <<>>)
    ELSE Raise("ValueError", "Catalog must be either a string or a list of catalogs", <<>>)

SanatizeInputTableList(table_list) ==
    IF table_list.t = "TableList" THEN Return(table_list, <<>>)
    ELSE Raise("ValueError", "Query_table_list must be an astropy.utils.TableList", <<>>)

\* ---------------------------------------------------------------- registry
\* _find_mission_tap_table_name comparing the names as they are
FindMissionTapTableName_CaseSensitive(json, mission_name, requests) ==
    IF Len(json) > 0 /\ mission_name.t # "str"
    THEN Raise("AttributeError", "object has no attribute 'lower'", requests)
    ELSE IF \E i \in 1..Len(json) : json[i].mission = mission_name.v
    THEN LET i == CHOOSE i \in 1..Len(json) :
                    /\ json[i].mission = mission_name.v
                    /\ \A j \in 1..(i-1) : json[j].mission # mission_name.v
         IN  Return(json[i].tapTable, requests)
    ELSE Raise("ValueError", "Input %s not available.", requests)

\* _find_mission_tap_table_name: first descriptor whose mission name matches
\* case-insensitively; mission_name is a python value (str() has lower())
FindMissionTapTableName(json, mission_name, requests) ==
    IF Len(json) > 0 /\ mission_name.t # "str"
    THEN Raise("AttributeError", "object has no attribute 'lower'", requests)
    ELSE IF \E i \in 1..Len(json) : Lower(json[i].mission) = Lower(mission_name.v)
    THEN LET i == CHOOSE i \in 1..Len(json) :
                    /\ Lower(json[i].mission) = Lower(mission_name.v)
                    /\ \A j \in 1..(i-1) : Lower(json[j].mission) # Lower(mission_name.v)
         IN  Return(json[i].tapTable, requests)
    ELSE Raise("ValueError", "Input %s not available.", requests)

\* _find_mission_parameters_in_json: first descriptor with that tapTable
FindMissionParametersInJson(mission_tap_name, json, requests) ==
    IF \E i \in 1..Len(json) : json[i].tapTable = mission_tap_name
    THEN LET i == CHOOSE i \in 1..Len(json) :
                    /\ json[i].tapTable = mission_tap_name
                    /\ \A j \in 1..(i-1) : json[j].tapTable # mission_tap_name
         IN  Return(json[i], requests)
    ELSE Raise("ValueError", "Input tap name %s not available.", requests)

\* ------------------------------------------------------------ query, payload
\* _build_observation_query / _build_catalog_query, as the parts of the ADQL
\* string that depend on the inputs
BuildQuery(object_name, coordinates, radius, json) ==
    [select |-> IF object_name = OBSERVATIONS_STRING THEN "SELECT DISTINCT" ELSE "SELECT TOP",
     from |-> json.tapTable,
     contains |-> IF object_name = OBSERVATIONS_STRING
                  THEN (IF json.isSurveyMission THEN "pos" ELSE "fov")
                  ELSE "posTapColumn",
     ra |-> coordinates.raHours * 15,
     dec |-> coordinates.dec,
     radius |-> radius.v]

CreateRequestPayload(query) ==
    [REQUEST |-> "doQuery", LANG |-> "ADQL", FORMAT |-> "VOTABLE", QUERY |-> query]

PayloadValue(payload) == [t |-> "payload", v |-> payload]

\* the filter column of a row, after decode().split(",")
HerschelFilters == <<"250", "350">>

\* the table a well-formed VOTABLE response decodes to: rows of observation
\* id and product url
TableOf(response) ==
    [t |-> "table",
     v |-> [i \in 1..response.n |->
              [observation_id |-> i, product_url |-> <<response.from, i>>,
               filter |-> HerschelFilters]]]

\* len() of a value stored in a query result: rows of a table, keys of a payload
PyLen(value) ==
    IF value.t = "table" THEN Len(value.v) ELSE Cardinality(DOMAIN value.v)

\* what the TAP service can answer to a query of table `from`
TapResponses(from) ==
    {Object("response", "unreachable", 0, from), Object("response", "malformed", 0, from)}
    \cup {Object("response", "votable", n, from) : n \in 0..MaxRows}

WithAttrs(r, attrs) ==
    [kind |-> r.kind, value |-> r.value, error |-> r.error, net |-> r.net,
     attrs |-> attrs]

\* the exception the VOTABLE decoder raises on a malformed body
ParseFailureCause == Object("exception", "VOTableError", 0, "")

\* _parse_xml_table that keeps nothing of the failure
ParseXmlTable_NoAttrs(response, requests) ==
    IF response.v = "votable"
    THEN WithAttrs(Return(TableOf(response), requests), <<>>)
    ELSE WithAttrs(Raise("TableParseError", "Failed to parse ESASky VOTABLE result!", requests),
                   <<>>)

\* _parse_xml_table: the decoded table; on any failure the response and the
\* exception are stored on the instance and TableParseError(message) is raised.
\* attrs: the attributes the call sets on self.
ParseXmlTable(response, requests) ==
    IF response.v = "votable"
    THEN WithAttrs(Return(TableOf(response), requests), <<>>)
    ELSE WithAttrs(Raise("TableParseError", "Failed to parse ESASky VOTABLE result!", requests),
                   << <<"response", response>>,
                      <<"table_parse_error", ParseFailureCause>> >>)

\* _get_and_parse_from_tap: GET /tap/sync, then parse; the transport raises
\* when the service cannot be reached
GetAndParseFromTap(response, requests) ==
    IF response.v = "unreachable"
    THEN WithAttrs(Raise("ConnectionError", "GET /tap/sync failed", Append(requests, Request("tap", "/tap/sync", 0))), <<>>)
    ELSE ParseXmlTable(response, Append(requests, Request("tap", "/tap/sync", 0)))

\* PayloadOrTable with the payload flag ignored
PayloadOrTable_AlwaysSend(get_query_payload, request_payload, response, requests) ==
    GetAndParseFromTap(response, requests)

\* the end of _query_region_maps / _query_region_catalog: the payload itself
\* in payload mode, else the parsed answer of the TAP service
PayloadOrTable(get_query_payload, request_payload, response, requests) ==
    IF get_query_payload
    THEN WithAttrs(Return(PayloadValue(request_payload), requests), <<>>)
    ELSE GetAndParseFromTap(response, requests)

\* _query_region_maps / _query_region_catalog for one name: the registry is
\* fetched to resolve the name and again to find the descriptor; fetchFail is
\* the fetch that fails (0: none).  The TAP request is sent with cache=True:
\* a payload already answered in `cache` gets the same response again,
\* otherwise the service answers `answer`.
QueryRegionOne(object_name, coordinates, radius, name, get_query_payload, fetchFail, cache, answer) ==
    LET f1 == FetchAndParseJson(object_name, fetchFail # 1)
        tap == FindMissionTapTableName(f1.value, name, f1.net)
        f2 == FetchAndParseJson(object_name, fetchFail # 2)
        par == FindMissionParametersInJson(tap.value, f2.value, tap.net \o f2.net)
        request_payload ==
            CreateRequestPayload(BuildQuery(object_name, coordinates, radius, par.value))
        response ==
            IF HasKey(cache, request_payload) THEN Get(cache, request_payload)
            ELSE Object("response", answer.v, answer.n, par.value.tapTable)
        NoTap(r) == [kind |-> r.kind, value |-> r.value, error |-> r.error, net |-> r.net,
                     attrs |-> <<>>, cache |-> cache]
        tapped == PayloadOrTable(get_query_payload, request_payload, response, par.net)
    IN  IF f1.kind = "raise" THEN NoTap(f1)
        ELSE IF tap.kind = "raise" THEN NoTap(tap)
        ELSE IF f2.kind = "raise"
        THEN NoTap(Raise(f2.error.type, "urlopen error", tap.net \o f2.net))
        ELSE IF par.kind = "raise" THEN NoTap(par)
        ELSE [kind |-> tapped.kind, value |-> tapped.value, error |-> tapped.error,
              net |-> tapped.net, attrs |-> tapped.attrs,
              cache |-> IF get_query_payload \/ response.v = "unreachable" THEN cache
                        ELSE Put(cache, request_payload, response)]

\* ------------------------------------------------------------------ inputs
Positions ==
    {[t |-> "str", raHours |-> 10, dec |-> 41],
     [t |-> "SkyCoord", raHours |-> 10, dec |-> 41],
     [t |-> "int", raHours |-> 0, dec |-> 0]}

\* radius values: v is the angle in arcmin; ZERO_ARCMIN_STRING is the str "0 arcmin"
ZERO_ARCMIN_STRING == [t |-> "str", v |-> 0]
Radii ==
    {ZERO_ARCMIN_STRING, [t |-> "Quantity", v |-> 14], [t |-> "int", v |-> 0]}

\* commons.parse_coordinates and commons.radius_to_unit are collaborators
ParseCoordinates(position) == [raHours |-> position.raHours, dec |-> position.dec]

\* names a caller puts in a selector: known ones in another case, an unknown
\* one, and an element that is not a string
MissionNames ==
    {<<"h","s","t">>, <<"I","N","T","E","G","R","A","L">>,
     <<"H","e","r","s","c","h","e","l">>, <<"n","o","p","e">>}
CatalogNames == {<<"g","a","i","a">>, <<"H","s","c">>, <<"n","o","p","e">>}

SeqsUpTo(S, n) == UNION {[1..k -> S] : k \in 0..n}

Selectors(names) ==
    {PyStr(s) : s \in names \cup {<<"a","l","l">>, <<"A","l","l">>}}
    \cup {PyList(l) : l \in SeqsUpTo({PyStr(s) : s \in names} \cup {PyInt(<<"5">>)}, MaxSel)}
    \cup {PyInt(<<"5">>)}

MissionSelectors == Selectors(MissionNames)
CatalogSelectors == Selectors(CatalogNames)

DownloadFolders == {MAPS_STRING, <<"o","u","t">>}

\* ---------------------------------------------------------------- download
\* _create_mission_directory without the branch on the default folder
CreateMissionDirectory_Plain(mission, download_folder) ==
    download_folder \o SLASH \o mission

\* _create_mission_directory: the directory path (made if absent by the caller
\* of this operator, which adds it to fs)
CreateMissionDirectory(mission, download_folder) ==
    IF download_folder = MAPS_STRING
    THEN MAPS_STRING \o SLASH \o mission
    ELSE download_folder \o SLASH \o MAPS_STRING \o SLASH \o mission

\* the members of the tar archive a Herschel product url serves, with the
\* instrument its lowercased name contains
HerschelArchive ==
    << [name |-> "obs/hspire250.fits", instrument |-> "hspire"],
       [name |-> "obs/README", instrument |-> "none"],
       [name |-> "obs/hpacs70.fits", instrument |-> "hpacs"] >>

RECURSIVE HerschelMembers(_, _, _, _, _)
\* the loop of _get_herschel_observation over tar.getmembers(): member k,
\* i filters consumed, observation built so far
HerschelMembers(members, k, i, filters, observation) ==
    IF k > Len(members) THEN Return(observation, <<>>)
    ELSE IF members[k].instrument \in {"hspire", "hpacs"}
    THEN IF i + 1 > Len(filters)
         THEN Raise("IndexError", "list index out of range", <<>>)
         ELSE HerschelMembers(members, k + 1, i + 1, filters,
                  Put(observation, filters[i + 1], members[k].name))
    ELSE HerschelMembers(members, k + 1, i, filters, observation)

\* _get_herschel_observation: filter name -> opened member
GetHerschelObservation(product_url, directory_path, filters) ==
    LET r == HerschelMembers(HerschelArchive, 1, 0, filters, <<>>)
    IN  IF r.kind = "raise" THEN r
        ELSE Return([t |-> "observation", dir |-> directory_path, v |-> r.value], <<>>)

RECURSIVE DownloadRows(_, _, _, _, _, _, _)
\* the loop of _get_maps_for_mission over the rows: row `index`, maps built so
\* far, requests issued so far; the download of row failAt fails (0: none)
DownloadRows(rows, index, mission, directory_path, failAt, maps, requests) ==
    IF index > Len(rows) THEN Return(maps, requests)
    ELSE
      LET product_url == rows[index].product_url
          observation_id == rows[index].observation_id
          issued == Append(requests, Request("product", product_url[1], product_url[2]))
          herschel == GetHerschelObservation(product_url, directory_path, rows[index].filter)
      IN  IF index = failAt THEN Raise("HTTPError", "urlopen error", issued)
          ELSE IF Lower(mission) = HERSCHEL_STRING
          THEN IF herschel.kind = "raise"
               THEN Raise(herschel.error.type, "list index out of range", issued)
               ELSE DownloadRows(rows, index + 1, mission, directory_path, failAt,
                        Put(maps, observation_id, herschel.value), issued)
          ELSE DownloadRows(rows, index + 1, mission, directory_path, failAt,
                   Put(maps, observation_id,
                       [t |-> "HDUList", dir |-> directory_path, v |-> product_url]),
                   issued)

\* _get_maps_for_mission: observation id -> opened product; dirs: the
\* directories the call makes sure exist
GetMapsForMission(maps_table, mission, download_folder, failAt) ==
    LET mission_directory == CreateMissionDirectory(mission, download_folder)
        r == DownloadRows(maps_table.v, 1, mission, mission_directory \o SLASH,
                          failAt, <<>>, <<>>)
    IN  IF Len(maps_table.v) > 0
        THEN [kind |-> r.kind, value |-> r.value, error |-> r.error, net |-> r.net,
              dirs |-> {mission_directory}]
        ELSE [kind |-> "return", value |-> <<>>, error |-> NoError, net |-> <<>>,
              dirs |-> {}]

RECURSIVE SelectMission_NoSkip(_, _, _)
\* SelectMission without the test for the mission without product urls
SelectMission_NoSkip(query_mission, missions, k) ==
    IF k > Len(missions) THEN "skip"
    ELSE IF missions[k].t # "str" THEN "error"
    ELSE IF Lower(query_mission) = Lower(missions[k].v) THEN "download"
    ELSE SelectMission_NoSkip(query_mission, missions, k + 1)

RECURSIVE SelectMission(_, _, _)
\* the inner loop of get_maps over sanatized_missions from position k: whether
\* query_mission is downloaded ("download"), passed over ("skip"), or the
\* comparison fails on an element without lower() ("error")
SelectMission(query_mission, missions, k) ==
    IF k > Len(missions) THEN "skip"
    ELSE IF Lower(query_mission) = INTEGRAL_STRING THEN "skip"
    ELSE IF missions[k].t # "str" THEN "error"
    ELSE IF Lower(query_mission) = Lower(missions[k].v) THEN "download"
    ELSE SelectMission(query_mission, missions, k + 1)

\* the TableLists a caller hands to get_maps: up to MaxTables tables keyed by
\* upper-cased mission names, of `n` rows each; and a value of another type
TableKeys == {Upper(ObservationsJson[i].mission) : i \in 1..Len(ObservationsJson)}

TapTableOf(key) ==
    ObservationsJson[CHOOSE i \in 1..Len(ObservationsJson) :
                        Upper(ObservationsJson[i].mission) = key].tapTable

QueryTableLists ==
    {TableList([i \in 1..Len(ks) |->
                  <<ks[i], TableOf(Object("response", "votable", n, TapTableOf(ks[i])))>>]) :
        ks \in {q \in SeqsUpTo(TableKeys, MaxTables) :
                   \A i, j \in 1..Len(q) : i # j => q[i] # q[j]},
        n \in 0..MaxRows}
    \cup {[t |-> "dict", v |-> <<>>]}

\* -------------------------------------------------------------------- state
VARIABLES
    pc,              \* "idle", "query" (store loop), "download" (download loop), "done"
    call,            \* the public method running and its arguments
    todo,            \* what the running loop has still to iterate over
    sanatized,       \* the resolved selector (sanatized_missions / _catalogs), None before
    raised,          \* the exception raised while a mission was processed, if any
    query_result,    \* the mapping _store_query_result_* fills
    region_outcome,  \* what the query_region_* call inside this call returned
    maps,            \* the mapping the download loop fills
    outcome,         \* what the caller gets: a return value or an exception
    net,             \* network requests issued in this call, in order
    tap_cache,       \* TAP payloads answered in this call, with their responses
    self,            \* attributes set on the ESASkyClass instance
    fs               \* paths that exist: directories made, files written

vars == <<pc, call, todo, sanatized, raised, query_result, region_outcome, maps, outcome,
          net, tap_cache, self, fs>>

QueryOps == {"query_region_maps", "query_region_catalogs",
             "query_object_maps", "query_object_catalogs"}

ObjectNameOf(op) ==
    IF op \in {"query_region_catalogs", "query_object_catalogs"}
    THEN CATALOGS_STRING ELSE OBSERVATIONS_STRING

Outcome(r) == [kind |-> r.kind, value |-> r.value, error |-> r.error]

NoCall == [op |-> "none", position |-> None, radius |-> None, selector |-> None,
           get_query_payload |-> FALSE, download_folder |-> <<>>,
           query_table_list |-> None]

Init ==
    /\ pc = "idle"
    /\ call = NoCall
    /\ todo = <<>>
    /\ sanatized = None
    /\ raised = NoError
    /\ query_result = <<>>
    /\ region_outcome = NoOutcome
    /\ maps = <<>>
    /\ outcome = Outcome(NoOutcome)
    /\ net = <<>>
    /\ tap_cache = <<>>
    /\ self = <<>>
    /\ fs = {}

\* the first failing validation, else the resolved selector
Validate(op, position, radius, selector, fetchOk) ==
    LET p == SanatizeInputPosition(position)
        r == SanatizeInputRadius(radius)
        m == IF ObjectNameOf(op) = CATALOGS_STRING
             THEN SanatizeInputCatalogs(selector, fetchOk)
             ELSE SanatizeInputMission(selector, fetchOk)
    IN  IF p.kind = "raise" THEN p ELSE IF r.kind = "raise" THEN r ELSE m

\* entry of query_region_maps / query_region_catalogs, directly or from
\* query_object_* and get_images: the validations, then the store loop starts
EnterQueryRegion(op, position, radius, selector, get_query_payload, download_folder, fetchOk) ==
    LET v == Validate(op, position, radius, selector, fetchOk)
    IN  /\ call' = [op |-> op, position |-> position, radius |-> radius,
                    selector |-> selector, get_query_payload |-> get_query_payload,
                    download_folder |-> download_folder, query_table_list |-> None]
        /\ net' = v.net
        /\ query_result' = <<>>
        /\ region_outcome' = NoOutcome
        /\ maps' = <<>>
        /\ tap_cache' = <<>>
        /\ IF v.kind = "raise"
           THEN /\ pc' = "done"
                /\ outcome' = Outcome(v)
                /\ todo' = <<>>
                /\ sanatized' = None
           ELSE /\ pc' = "query"
                /\ outcome' = Outcome(NoOutcome)
                /\ todo' = v.value
                /\ sanatized' = PyList(v.value)
        /\ UNCHANGED <<raised, self, fs>>

QueryRegionMaps ==
    /\ pc = "idle"
    /\ \E position \in Positions, radius \in Radii, missions \in MissionSelectors,
       get_query_payload \in BOOLEAN, fetchOk \in BOOLEAN :
        EnterQueryRegion("query_region_maps", position, radius, missions,
                         get_query_payload, <<>>, fetchOk)

QueryRegionCatalogs ==
    /\ pc = "idle"
    /\ \E position \in Positions, radius \in Radii, catalogs \in CatalogSelectors,
       get_query_payload \in BOOLEAN, fetchOk \in BOOLEAN :
        EnterQueryRegion("query_region_catalogs", position, radius, catalogs,
                         get_query_payload, <<>>, fetchOk)

\* query_object_maps: query_region_maps with the radius "0 arcmin"
QueryObjectMaps ==
    /\ pc = "idle"
    /\ \E position \in Positions, missions \in MissionSelectors,
       get_query_payload \in BOOLEAN, fetchOk \in BOOLEAN :
        EnterQueryRegion("query_object_maps", position, ZERO_ARCMIN_STRING, missions,
                         get_query_payload, <<>>, fetchOk)

QueryObjectCatalogs ==
    /\ pc = "idle"
    /\ \E position \in Positions, catalogs \in CatalogSelectors,
       get_query_payload \in BOOLEAN, fetchOk \in BOOLEAN :
        EnterQueryRegion("query_object_catalogs", position, ZERO_ARCMIN_STRING, catalogs,
                         get_query_payload, <<>>, fetchOk)

\* get_images: the validations, then query_region_maps with the sanatized
\* arguments (a list passes _sanatize_input_mission unchanged) and payload off
GetImages ==
    /\ pc = "idle"
    /\ \E position \in Positions, radius \in Radii, missions \in MissionSelectors,
       download_folder \in DownloadFolders, fetchOk \in BOOLEAN :
        EnterQueryRegion("get_images", position, radius, missions, FALSE,
                         download_folder, fetchOk)

SetAttrs(obj, attrs) ==
    IF attrs = <<>> THEN obj
    ELSE Put(Put(obj, attrs[1][1], attrs[1][2]), attrs[2][1], attrs[2][2])

\* Propagate with the exception of a mission caught and the loop going on
Propagate_Swallow(r) ==
    [pc |-> pc, outcome |-> outcome, advance |-> TRUE]

\* the body of the loops over missions has no try/except: an exception raised
\* while a mission is processed ends the loop and the call, and the caller
\* gets that exception; otherwise the loop goes on with the next mission
Propagate(r) ==
    IF r.kind = "raise"
    THEN [pc |-> "done", outcome |-> Outcome(r), advance |-> FALSE]
    ELSE [pc |-> pc, outcome |-> outcome, advance |-> TRUE]

\* StoreResult without the test of the length
StoreResult_KeepEmpty(result, mission, mission_table) ==
    Put(result, Upper(mission.v), mission_table)

\* the body of _store_query_result_*: the table (or payload) of a mission is
\* kept under the upper-cased name when its length is above zero
StoreResult(result, mission, mission_table) ==
    IF PyLen(mission_table) > 0
    THEN Put(result, Upper(mission.v), mission_table)
    ELSE result

\* one iteration of _store_query_result_maps / _store_query_result_catalogs
StoreQueryResult ==
    /\ pc = "query"
    /\ todo # <<>>
    /\ \E fetchFail \in 0..2, answer \in TapResponses("") :
         LET mission == Head(todo)
             mission_table ==
                 QueryRegionOne(ObjectNameOf(call.op), ParseCoordinates(call.position),
                                call.radius, mission, call.get_query_payload,
                                fetchFail, tap_cache, answer)
             next == Propagate(mission_table)
         IN  /\ net' = net \o mission_table.net
             /\ tap_cache' = mission_table.cache
             /\ self' = SetAttrs(self, mission_table.attrs)
             /\ raised' = mission_table.error
             /\ pc' = next.pc
             /\ outcome' = next.outcome
             /\ todo' = IF next.advance THEN Tail(todo) ELSE todo
             /\ query_result' =
                    IF mission_table.kind = "raise" THEN query_result
                    ELSE StoreResult(query_result, mission, mission_table.value)
    /\ UNCHANGED <<call, sanatized, region_outcome, maps, fs>>

\* what query_region_* returns once the store loop is over
RegionReturn(result, get_query_payload) ==
    IF get_query_payload THEN Return([t |-> "dict", v |-> result], <<>>)
    ELSE Return(TableList(result), <<>>)

\* the store loop is over: query_region_* returns; query_object_* has no
\* return statement; get_images goes on to iterate over the query result
QueryReturn ==
    /\ pc = "query"
    /\ todo = <<>>
    /\ region_outcome' = RegionReturn(query_result, call.get_query_payload)
    /\ IF call.op \in {"query_region_maps", "query_region_catalogs"}
       THEN /\ outcome' = Outcome(region_outcome')
            /\ pc' = "done"
            /\ UNCHANGED todo
       ELSE IF call.op \in {"query_object_maps", "query_object_catalogs"}
       THEN /\ outcome' = Outcome(Return(None, <<>>))
            /\ pc' = "done"
            /\ UNCHANGED todo
       ELSE /\ pc' = "download"
            /\ todo' = Keys(query_result)
            /\ UNCHANGED outcome
    /\ UNCHANGED <<call, sanatized, raised, query_result, maps, net, tap_cache, self, fs>>

\* get_maps: the validations, then the loop over the keys of the table list
GetMaps ==
    /\ pc = "idle"
    /\ \E query_table_list \in QueryTableLists, missions \in MissionSelectors,
       download_folder \in DownloadFolders, fetchOk \in BOOLEAN :
        LET t == SanatizeInputTableList(query_table_list)
            m == SanatizeInputMission(missions, fetchOk)
            v == IF t.kind = "raise" THEN t ELSE m
        IN  /\ call' = [op |-> "get_maps", position |-> None, radius |-> None,
                        selector |-> missions, get_query_payload |-> FALSE,
                        download_folder |-> download_folder,
                        query_table_list |-> query_table_list]
            /\ net' = v.net
            /\ query_result' = <<>>
            /\ region_outcome' = NoOutcome
            /\ maps' = <<>>
            /\ tap_cache' = <<>>
            /\ IF v.kind = "raise"
               THEN /\ pc' = "done"
                    /\ outcome' = Outcome(v)
                    /\ todo' = <<>>
                    /\ sanatized' = None
               ELSE /\ pc' = "download"
                    /\ outcome' = Outcome(NoOutcome)
                    /\ todo' = Keys(query_table_list.v)
                    /\ sanatized' = PyList(v.value)
            /\ UNCHANGED <<raised, self, fs>>

\* one iteration of the outer loop of get_maps
GetMapsStep ==
    /\ pc = "download"
    /\ call.op = "get_maps"
    /\ todo # <<>>
    /\ LET query_mission == Head(todo)
           selected == SelectMission(query_mission, sanatized.v, 1)
       IN  \E failAt \in 0..Len(Get(call.query_table_list.v, query_mission).v) :
             LET r == IF selected = "error"
                      THEN [kind |-> "raise", value |-> None,
                            error |-> Raise("AttributeError",
                                        "object has no attribute 'lower'", <<>>).error,
                            net |-> <<>>, dirs |-> {}]
                      ELSE GetMapsForMission(Get(call.query_table_list.v, query_mission),
                                             query_mission, call.download_folder, failAt)
                 next == Propagate(r)
             IN  IF selected = "skip"
                 THEN /\ todo' = Tail(todo)
                      /\ UNCHANGED <<pc, outcome, maps, net, fs, raised>>
                 ELSE /\ net' = net \o r.net
                      /\ fs' = fs \cup r.dirs
                      /\ raised' = r.error
                      /\ pc' = next.pc
                      /\ outcome' = next.outcome
                      /\ todo' = IF next.advance THEN Tail(todo) ELSE todo
                      /\ maps' = IF r.kind = "raise" THEN maps
                                 ELSE Put(maps, query_mission, r.value)
    /\ UNCHANGED <<call, sanatized, query_result, region_outcome, tap_cache, self>>

\* the loop of get_maps is over
GetMapsReturn ==
    /\ pc = "download"
    /\ call.op = "get_maps"
    /\ todo = <<>>
    /\ pc' = "done"
    /\ outcome' = Outcome(Return(TableList(maps), <<>>))
    /\ UNCHANGED <<call, todo, sanatized, raised, query_result, region_outcome, maps,
                   net, tap_cache, self, fs>>

\* one iteration of the loop of get_images over map_query_result
GetImagesStep ==
    /\ pc = "download"
    /\ call.op = "get_images"
    /\ todo # <<>>
    /\ LET query_mission == Head(todo)
       IN  \E failAt \in 0..Len(Get(query_result, query_mission).v) :
             LET r == GetMapsForMission(Get(query_result, query_mission),
                                        query_mission, call.download_folder, failAt)
                 next == Propagate(r)
             IN  IF Lower(query_mission) = INTEGRAL_STRING
                 THEN /\ todo' = Tail(todo)
                      /\ UNCHANGED <<pc, outcome, maps, net, fs, raised>>
                 ELSE /\ net' = net \o r.net
                      /\ fs' = fs \cup r.dirs
                      /\ raised' = r.error
                      /\ pc' = next.pc
                      /\ outcome' = next.outcome
                      /\ todo' = IF next.advance THEN Tail(todo) ELSE todo
                      /\ maps' = IF r.kind = "raise" THEN maps
                                 ELSE Put(maps, query_mission, r.value)
    /\ UNCHANGED <<call, sanatized, query_result, region_outcome, tap_cache, self>>

\* the loop of get_images is over: the closing print reads self.download_folder
GetImagesReturn ==
    /\ pc = "download"
    /\ call.op = "get_images"
    /\ todo = <<>>
    /\ pc' = "done"
    /\ outcome' = IF HasKey(self, "download_folder")
                  THEN Outcome(Return([t |-> "dict", v |-> maps], <<>>))
                  ELSE Outcome(Raise("AttributeError",
                           "object has no attribute 'download_folder'", <<>>))
    /\ UNCHANGED <<call, todo, sanatized, raised, query_result, region_outcome, maps,
                   net, tap_cache, self, fs>>

Next ==
    \/ QueryRegionMaps
    \/ QueryRegionCatalogs
    \/ QueryObjectMaps
    \/ QueryObjectCatalogs
    \/ GetImages
    \/ GetMaps
    \/ StoreQueryResult
    \/ QueryReturn
    \/ GetMapsStep
    \/ GetMapsReturn
    \/ GetImagesStep
    \/ GetImagesReturn

Spec == Init /\ [][Next]_vars

\* ------------------------------------------------------------------ claims
\* the names the store loop has gone through without an exception
QueriedNames ==
    IF sanatized = None \/ call.op = "get_maps" THEN <<>>
    ELSE IF region_outcome.kind = "return" THEN sanatized.v
    ELSE SubSeq(sanatized.v, 1, Len(sanatized.v) - Len(todo))

\* the mapping the store loop fills, and after the loop the one returned
ResultMapping ==
    IF region_outcome.kind = "return" THEN region_outcome.value.v ELSE query_result

\* the request payload of the running call for a name the registry knows
PayloadFor(name) ==
    LET json == RegistryDocument(ObjectNameOf(call.op))
        tap == FindMissionTapTableName(json, name, <<>>).value
    IN  CreateRequestPayload(
            BuildQuery(ObjectNameOf(call.op), ParseCoordinates(call.position),
                       call.radius, FindMissionParametersInJson(tap, json, <<>>).value))

\* the number of rows the TAP service answered for a name
RowsOf(name) == Get(tap_cache, PayloadFor(name)).n

\* what a selector has to resolve to for a registry document
ResolvedSelector(selector, object_name) ==
    IF selector.t = "list" THEN selector.v
    ELSE IF Lower(selector.v) = ALL_STRING
    THEN [i \in 1..Len(RegistryDocument(object_name)) |->
             PyStr(RegistryDocument(object_name)[i].mission)]
    ELSE <<PyStr(selector.v)>>

\* C1: a list selector resolves to that list, a single name other than "all"
\* to the one-element list of it, and "all" to the names of the registry
\* document of the kind the call queries (observations for maps, catalogs for
\* catalog queries).
C1_SelectorResolution ==
    sanatized # None =>
        sanatized.v = ResolvedSelector(call.selector, ObjectNameOf(call.op))

\* C2: without payload mode, the result mapping has the upper-cased name of
\* a queried mission exactly when its query returned at least one row: no key
\* for a mission with zero rows, a key for every mission with rows.
C2_NoKeyForEmptyMission ==
    (sanatized # None /\ call.op # "get_maps" /\ ~call.get_query_payload) =>
        \A i \in 1..Len(QueriedNames) :
            LET name == QueriedNames[i]
            IN  /\ RowsOf(name) = 0 => ~HasKey(ResultMapping, Upper(name.v))
                /\ RowsOf(name) > 0 => HasKey(ResultMapping, Upper(name.v))

C2_Witness ==
    /\ pc = "done"
    /\ call.op \in {"query_region_maps", "query_region_catalogs"}
    /\ ~call.get_query_payload
    /\ outcome.kind = "return"
    /\ \E i, j \in 1..Len(sanatized.v) :
          /\ RowsOf(sanatized.v[i]) = 0
          /\ RowsOf(sanatized.v[j]) > 0
          /\ ~HasKey(outcome.value.v, Upper(sanatized.v[i].v))
          /\ HasKey(outcome.value.v, Upper(sanatized.v[j].v))

\* C3: in payload mode no request to /tap/sync is issued at any point of the
\* call, and the value kept for each queried mission is its request payload.
C3_PayloadModeIssuesNoTapRequest ==
    call.get_query_payload =>
        /\ \A k \in 1..Len(net) : net[k].kind # "tap"
        /\ \A i \in 1..Len(QueriedNames) :
              LET name == QueriedNames[i]
              IN  /\ HasKey(ResultMapping, Upper(name.v))
                  /\ Get(ResultMapping, Upper(name.v)) = PayloadValue(PayloadFor(name))

C3_Witness ==
    /\ pc = "done"
    /\ call.op \in {"query_region_maps", "query_region_catalogs"}
    /\ call.get_query_payload
    /\ outcome.kind = "return"
    /\ Len(outcome.value.v) >= 2
    /\ Len(net) >= 4

IsIntegral(name) == Lower(name) = INTEGRAL_STRING

DownloadOps == {"get_maps", "get_images"}

\* the mapping of tables a download operation iterates over
DownloadTables ==
    IF call.op = "get_maps" THEN call.query_table_list.v ELSE query_result

\* whether the selector of the running download names a mission of the tables
SelectedFor(key) ==
    \/ call.op = "get_images"
    \/ \E j \in 1..Len(sanatized.v) :
          sanatized.v[j].t = "str" /\ Lower(sanatized.v[j].v) = Lower(key)

\* C4: get_maps and get_images never request a product of the mission named
\* "integral" (in any case), make no directory for it and have no key for it
\* in the mapping they build or return, also when it is in the query results
\* and named by the selector; once the loop is over every other selected
\* mission of the query results has its entry.
C4_IntegralNeverDownloaded ==
    (call.op \in DownloadOps /\ sanatized # None) =>
        /\ \A k \in 1..Len(net) :
              net[k].kind = "product" =>
                  \A i \in 1..Len(ObservationsJson) :
                      IsIntegral(ObservationsJson[i].mission) =>
                          net[k].what # ObservationsJson[i].tapTable
        /\ \A i \in 1..Len(maps) : ~IsIntegral(maps[i][1])
        /\ \A i \in 1..Len(DownloadTables) :
              IsIntegral(DownloadTables[i][1]) =>
                  CreateMissionDirectory(DownloadTables[i][1], call.download_folder) \notin fs
        /\ (pc = "done" /\ outcome.kind = "return") =>
              \A i \in 1..Len(outcome.value.v) : ~IsIntegral(outcome.value.v[i][1])
        /\ (pc = "download" /\ todo = <<>>) =>
              \A i \in 1..Len(DownloadTables) :
                  LET key == DownloadTables[i][1]
                  IN  (~IsIntegral(key) /\ SelectedFor(key)) => HasKey(maps, key)

C4_Witness ==
    /\ pc = "done"
    /\ call.op = "get_maps"
    /\ outcome.kind = "return"
    /\ \E i \in 1..Len(call.query_table_list.v) :
          /\ IsIntegral(call.query_table_list.v[i][1])
          /\ Len(call.query_table_list.v[i][2].v) > 0
    /\ \E j \in 1..Len(sanatized.v) :
          sanatized.v[j].t = "str" /\ IsIntegral(sanatized.v[j].v)
    /\ Len(outcome.value.v) = 1
    /\ \E k \in 1..Len(net) : net[k].kind = "product"

\* C5: query_object_maps / query_object_catalogs return what the call of
\* query_region_maps / query_region_catalogs they make (same position,
\* selector and payload flag, radius "0 arcmin") returns.
C5_ObjectQueryReturnsRegionResult ==
    (pc = "done" /\ call.op \in {"query_object_maps", "query_object_catalogs"}
        /\ region_outcome.kind = "return") =>
        outcome = Outcome(region_outcome)

\* C6: when the validations pass and the query and every download succeed,
\* get_images returns a mapping with one entry per mission of the query
\* result other than the excluded one, each an observation id -> product map.
C6_GetImagesReturnsProducts ==
    (pc = "done" /\ call.op = "get_images" /\ region_outcome.kind = "return"
        /\ todo = <<>>) =>
        /\ outcome.kind = "return"
        /\ \A i \in 1..Len(query_result) :
              ~IsIntegral(query_result[i][1]) => HasKey(outcome.value.v, query_result[i][1])
        /\ \A i \in 1..Len(outcome.value.v) :
              /\ HasKey(query_result, outcome.value.v[i][1])
              /\ ~IsIntegral(outcome.value.v[i][1])
              /\ Len(outcome.value.v[i][2]) = Len(Get(query_result, outcome.value.v[i][1]).v)

\* whether an argument of the running call has the wrong type or shape
WrongTypeOrShape ==
    \/ call.op # "get_maps" /\ call.position.t \notin {"str", "SkyCoord"}
    \/ call.op # "get_maps" /\ call.radius.t \notin {"str", "Quantity"}
    \/ call.op = "get_maps" /\ call.query_table_list.t # "TableList"
    \/ call.selector.t \notin {"str", "list"}
    \/ call.selector.t = "list" /\ \E i \in 1..Len(call.selector.v) : call.selector.v[i].t # "str"

\* C7: a call with an argument of the wrong type or shape issues no network
\* request and ends with a ValueError.
C7_InvalidInputFailsBeforeNetwork ==
    (call.op # "none" /\ WrongTypeOrShape) =>
        /\ net = <<>>
        /\ pc = "done" => (outcome.kind = "raise" /\ outcome.error.type = "ValueError")

CountRequests(kind) == Cardinality({k \in 1..Len(net) : net[k].kind = kind})

\* C8: when the processing of a mission raises in a query or download loop,
\* the call ends there: the caller gets that exception as raised and no
\* mapping, the failing mission is still the next of the loop, and no request
\* was issued for a mission after it.
C8_FirstFailureAbortsBatch ==
    raised # NoError =>
        /\ pc = "done"
        /\ outcome.kind = "raise"
        /\ outcome.error = raised
        /\ outcome.value = None
        /\ todo # <<>>
        /\ (call.op # "get_maps" /\ region_outcome.kind = "none") =>
              LET k == Len(sanatized.v) - Len(todo) + 1
              IN  /\ CountRequests("tap") <= k
                  /\ CountRequests("registry") <= 2 * k + 1
        /\ (call.op = "get_maps" \/ region_outcome.kind = "return") =>
              LET k == Len(DownloadTables) - Len(todo) + 1
              IN  /\ Len(maps) <= k - 1
                  /\ \A j \in 1..Len(net) :
                        net[j].kind = "product" =>
                            \E i \in 1..k : net[j].what = TapTableOf(DownloadTables[i][1])

C8_Witness ==
    /\ pc = "done"
    /\ raised # NoError
    /\ call.op = "query_region_maps"
    /\ Len(query_result) >= 1
    /\ Len(todo) >= 2
    /\ outcome.error = raised

\* the response of the TAP service last answered in the running call
LastResponse == tap_cache[Len(tap_cache)][2]

Carries(error, object) == \E i \in 1..Len(error.args) : error.args[i] = object

WrittenTo(directory_of(_)) ==
    /\ \A i \in 1..Len(maps) :
          LET mission == maps[i][1]
          IN  Len(maps[i][2]) > 0 =>
                /\ directory_of(mission) \in fs
                /\ \A j \in 1..Len(maps[i][2]) :
                      maps[i][2][j][2].dir = directory_of(mission) \o SLASH
    /\ \A d \in fs :
          \E i \in 1..Len(DownloadTables) : d = directory_of(DownloadTables[i][1])

PlainDirectory(mission) == call.download_folder \o SLASH \o mission

MapsDirectory(mission) ==
    IF call.download_folder = <<"M","a","p","s">>
    THEN <<"M","a","p","s","/">> \o mission
    ELSE call.download_folder \o <<"/","M","a","p","s","/">> \o mission

\* C10 as stated: the products of a mission are written to the directory
\* <download_folder>/<mission>, for every download folder.
C10_DirectoryIsFolderSlashMission ==
    call.op \in DownloadOps => WrittenTo(PlainDirectory)

\* C10 as amended: the products of a mission are written to Maps/<mission>
\* for the default download folder "Maps", and to
\* <download_folder>/Maps/<mission> for any other download folder.
C10_DirectoryIsUnderMaps ==
    call.op \in DownloadOps => WrittenTo(MapsDirectory)

C10_Witness ==
    /\ pc = "done"
    /\ call.op = "get_maps"
    /\ outcome.kind = "return"
    /\ call.download_folder # MAPS_STRING
    /\ Len(maps) = 2
    /\ Cardinality(fs) = 2

\* ===================================================== _build_catalog_query
MaxMeta == 2       \* most metadata columns of a catalog descriptor

\* the ADQL string as the sequence of the pieces the format strings put
\* together; numbers are formatted to text
RECURSIVE MetadataTapNames_TrailingComma(_, _)
\* the column loop with "," after every name, the last one too
MetadataTapNames_TrailingComma(metadata, i) ==
    IF i > Len(metadata) THEN <<>>
    ELSE <<metadata[i].tapName, ",">> \o MetadataTapNames_TrailingComma(metadata, i + 1)

RECURSIVE MetadataTapNames(_, _)
\* the loop over range(len(metadata)) from index i (1-based): " %s," for
\* every name but the last, " %s" for the last
MetadataTapNames(metadata, i) ==
    IF i > Len(metadata) THEN <<>>
    ELSE IF i < Len(metadata)
    THEN <<metadata[i].tapName, ",">> \o MetadataTapNames(metadata, i + 1)
    ELSE <<metadata[i].tapName>> \o MetadataTapNames(metadata, i + 1)

\* _build_catalog_query
BuildCatalogQuery(coordinates, radius, json) ==
    LET ra == coordinates.raHours * 15
        select_query == <<"SELECT", "TOP", ToString(json.sourceLimit)>>
        metadata_tap_names == MetadataTapNames(json.metadata, 1)
        from_query == <<"FROM", json.tapTable>>
        where_query == <<"WHERE", "1=CONTAINS(", json.posTapColumn, ",",
                         "CIRCLE('ICRS',", ToString(ra), ",", ToString(coordinates.dec), ",",
                         ToString(radius.v), "))">>
        order_by_query == <<"ORDER BY", json.orderBy, ";">>
    IN  select_query \o metadata_tap_names \o from_query \o where_query \o order_by_query

\* catalog descriptors of the catalogs document
SourceLimits == {10, 2000}
CatalogDescriptors ==
    {[mission |-> <<"G","a","i","a">>, tapTable |-> "cat_gaia", isSurveyMission |-> FALSE,
      sourceLimit |-> n, orderBy |-> o, posTapColumn |-> "pos", metadata |-> m] :
        n \in SourceLimits, o \in {"ra", "mag"},
        m \in SeqsUpTo({[label |-> "RA", tapName |-> "ra"],
                        [label |-> "Dec", tapName |-> "dec"],
                        [label |-> "Name", tapName |-> "name"]}, MaxMeta)}

\* a behaviour of SpecCatalogQuery is one call of _build_catalog_query
InitCatalogQuery ==
    /\ pc = "idle"
    /\ call \in {[op |-> "_build_catalog_query", coordinates |-> ParseCoordinates(p),
                  radius |-> r, json |-> d] :
                    p \in {q \in Positions : q.t = "str"},
                    r \in {q \in Radii : q.t # "int"},
                    d \in CatalogDescriptors}
    /\ todo = <<>>
    /\ sanatized = None
    /\ raised = NoError
    /\ query_result = <<>>
    /\ region_outcome = NoOutcome
    /\ maps = <<>>
    /\ outcome = Outcome(NoOutcome)
    /\ net = <<>>
    /\ tap_cache = <<>>
    /\ self = <<>>
    /\ fs = {}

BuildCatalogQueryCall ==
    /\ pc = "idle"
    /\ call.op = "_build_catalog_query"
    /\ pc' = "done"
    /\ outcome' = Outcome(Return(BuildCatalogQuery(call.coordinates, call.radius, call.json),
                                 <<>>))
    /\ UNCHANGED <<call, todo, sanatized, raised, query_result, region_outcome, maps, net,
                   tap_cache, self, fs>>

SpecCatalogQuery == InitCatalogQuery /\ [][BuildCatalogQueryCall]_vars

CountPiece(query, piece) == Cardinality({i \in 1..Len(query) : query[i] = piece})
PlaceOf(query, piece) == CHOOSE i \in 1..Len(query) : query[i] = piece

\* C12: the output of _build_catalog_query has exactly one ORDER BY and
\* exactly one TOP, TOP is followed by the source limit of the descriptor, and
\* between it and FROM stand the metadata TAP names in metadata order,
\* separated by commas, with no comma after the last.
C12_CatalogQueryShape ==
    (pc = "done" /\ call.op = "_build_catalog_query") =>
        LET query == outcome.value
            metadata == call.json.metadata
            n == Len(metadata)
        IN  /\ CountPiece(query, "ORDER BY") = 1
            /\ CountPiece(query, "TOP") = 1
            /\ CountPiece(query, "FROM") = 1
            /\ query[PlaceOf(query, "TOP") + 1] = ToString(call.json.sourceLimit)
            /\ query[PlaceOf(query, "ORDER BY") + 1] = call.json.orderBy
            /\ PlaceOf(query, "FROM") - PlaceOf(query, "TOP") - 2 =
                  IF n = 0 THEN 0 ELSE 2 * n - 1
            /\ \A i \in 1..n : query[PlaceOf(query, "TOP") + 2 * i] = metadata[i].tapName
            /\ \A i \in 1..(n - 1) : query[PlaceOf(query, "TOP") + 2 * i + 1] = ","

C12_Witness ==
    /\ pc = "done"
    /\ call.op = "_build_catalog_query"
    /\ Len(call.json.metadata) = 2
    /\ call.json.sourceLimit = 2000
    /\ CountPiece(outcome.value, "ORDER BY") = 1

\* ============================================= registry lookups on their own
MaxDocs == 2       \* most descriptors of a registry document

\* the state of an instance no public call has touched yet
Untouched ==
    /\ todo = <<>>
    /\ sanatized = None
    /\ raised = NoError
    /\ query_result = <<>>
    /\ region_outcome = NoOutcome
    /\ maps = <<>>
    /\ outcome = Outcome(NoOutcome)
    /\ net = <<>>
    /\ tap_cache = <<>>
    /\ self = <<>>
    /\ fs = {}

\* registry documents: descriptors whose display names and TAP table names
\* differ in case only, or altogether
RegistryDescriptors ==
    {[mission |-> m, tapTable |-> t, isSurveyMission |-> FALSE] :
        m \in {<<"H","s","t">>, <<"H","S","T">>, <<"G","a","i","a">>},
        t \in {<<"m","a">>, <<"M","A">>, <<"m","b">>}}
RegistryDocuments == SeqsUpTo(RegistryDescriptors, MaxDocs)
DisplayNames ==
    {PyStr(n) : n \in {<<"h","s","t">>, <<"H","S","T">>, <<"g","A","I","a">>,
                       <<"n","o","p","e">>}} \cup {PyInt(<<"5">>)}
TapNames == {PyStr(n) : n \in {<<"m","a">>, <<"M","A">>, <<"m","b">>, <<"m","c">>}}

\* a behaviour of SpecLookup is one call of a registry lookup on a document
InitLookup ==
    /\ pc = "idle"
    /\ call \in {[op |-> "_find_mission_tap_table_name", json |-> d, mission_name |-> n] :
                    d \in RegistryDocuments, n \in DisplayNames}
            \cup {[op |-> "_find_mission_parameters_in_json", json |-> d, mission_name |-> n] :
                    d \in RegistryDocuments, n \in TapNames}
    /\ Untouched

FindMissionTapTableNameCall ==
    /\ pc = "idle"
    /\ call.op = "_find_mission_tap_table_name"
    /\ pc' = "done"
    /\ outcome' = Outcome(FindMissionTapTableName(call.json, call.mission_name, <<>>))
    /\ UNCHANGED <<call, todo, sanatized, raised, query_result, region_outcome, maps, net,
                   tap_cache, self, fs>>

FindMissionParametersInJsonCall ==
    /\ pc = "idle"
    /\ call.op = "_find_mission_parameters_in_json"
    /\ pc' = "done"
    /\ outcome' = Outcome(FindMissionParametersInJson(call.mission_name.v, call.json, <<>>))
    /\ UNCHANGED <<call, todo, sanatized, raised, query_result, region_outcome, maps, net,
                   tap_cache, self, fs>>

NextLookup == FindMissionTapTableNameCall \/ FindMissionParametersInJsonCall

SpecLookup == InitLookup /\ [][NextLookup]_vars

SameIgnoringCase(a, b) ==
    /\ Len(a) = Len(b)
    /\ \A k \in 1..Len(a) : CharUpper(a[k]) = CharUpper(b[k])
IsFirst(json, i, Matches(_)) == Matches(json[i]) /\ \A j \in 1..(i - 1) : ~Matches(json[j])

\* C15: resolving a display name returns the TAP table name of the first
\* descriptor, in document order, whose mission name equals it ignoring case,
\* and raises ValueError when there is none; the lookup by TAP table name
\* returns the first descriptor whose TAP table name is the very same string,
\* and raises ValueError when there is none, whatever matches ignoring case.
C15_RegistryLookups ==
    /\ (pc = "done" /\ call.op = "_find_mission_tap_table_name"
            /\ call.mission_name.t = "str") =>
          LET json == call.json
              ByName(d) == SameIgnoringCase(d.mission, call.mission_name.v)
          IN  IF \E i \in 1..Len(json) : ByName(json[i])
              THEN /\ outcome.kind = "return"
                   /\ \E i \in 1..Len(json) :
                          IsFirst(json, i, ByName) /\ outcome.value = json[i].tapTable
              ELSE outcome.kind = "raise" /\ outcome.error.type = "ValueError"
    /\ (pc = "done" /\ call.op = "_find_mission_parameters_in_json") =>
          LET json == call.json
              ByTapName(d) == d.tapTable = call.mission_name.v
          IN  IF \E i \in 1..Len(json) : ByTapName(json[i])
              THEN /\ outcome.kind = "return"
                   /\ \E i \in 1..Len(json) :
                          IsFirst(json, i, ByTapName) /\ outcome.value = json[i]
              ELSE outcome.kind = "raise" /\ outcome.error.type = "ValueError"

\* a second descriptor matches in another case and the first one wins
C15_Witness ==
    /\ pc = "done"
    /\ call.op = "_find_mission_tap_table_name"
    /\ call.mission_name = PyStr(<<"h","s","t">>)
    /\ Len(call.json) = 2
    /\ call.json[1].mission = <<"H","S","T">>
    /\ call.json[2].mission = <<"H","s","t">>
    /\ call.json[1].tapTable # call.json[2].tapTable
    /\ outcome.kind = "return"
    /\ outcome.value = call.json[1].tapTable

\* ================================== _extract_file_name_from_response_header
MaxPieces == 5     \* most pieces a Content-Disposition header is made of

FITS_STRING == <<".","f","i","t","s">>
FTZ_STRING == <<".","F","T","Z">>
TAR_STRING == <<".","t","a","r">>
FILENAME_STRING == <<"f","i","l","e","n","a","m","e","=">>
QUOTE == <<"\"">>

\* python strings are indexed from 0: s[i] is the character at i
CharAt(s, i) == s[i + 1]
\* s[a:b] for 0 <= a
Slice(s, a, b) == SubSeq(s, a + 1, IF b > Len(s) THEN Len(s) ELSE b)
StartsAt(s, sub, i) == i + Len(sub) <= Len(s) /\ SubSeq(s, i + 1, i + Len(sub)) = sub
\* s.find(sub, from): the lowest index >= from where sub starts, -1 if none;
\* s.index(sub, from) raises ValueError where find gives -1, and
\* `sub in s[from:]` is find(sub, from) # -1
Find(s, sub, from) ==
    IF \E i \in from..Len(s) : StartsAt(s, sub, i)
    THEN CHOOSE i \in from..Len(s) :
            StartsAt(s, sub, i) /\ \A j \in from..(i - 1) : ~StartsAt(s, sub, j)
    ELSE -1

\* the branch of one suffix: index(suffix, start_index + 1) and the slice
CutAtSuffix(content_disposition, start_index, suffix) ==
    LET found == Find(content_disposition, suffix, start_index + 1)
    IN  IF found = -1 THEN Raise("ValueError", "substring not found", <<>>)
        ELSE Return(PyStr(Slice(content_disposition, start_index, found + Len(suffix))), <<>>)

\* _extract_file_name_from_response_header; headers is the value
\* headers.get('Content-Disposition') gives: a str, or None without the header
ExtractFileNameFromResponseHeader(headers) ==
    IF headers.t # "str"
    THEN Raise("AttributeError", "'NoneType' object has no attribute 'index'", <<>>)
    ELSE
      LET content_disposition == headers.v
          found == Find(content_disposition, FILENAME_STRING, 0)
          after == found + Len(FILENAME_STRING)
          start_index == IF CharAt(content_disposition, after) = QUOTE[1]
                         THEN after + 1 ELSE after
          Has(suffix) == Find(content_disposition, suffix, start_index) # -1
      IN  IF found = -1 THEN Raise("ValueError", "substring not found", <<>>)
          ELSE IF after >= Len(content_disposition)
          THEN Raise("IndexError", "string index out of range", <<>>)
          ELSE IF Has(FITS_STRING)
          THEN CutAtSuffix(content_disposition, start_index, FITS_STRING)
          ELSE IF Has(FTZ_STRING)
          THEN CutAtSuffix(content_disposition, start_index, FTZ_STRING)
          ELSE IF Has(TAR_STRING)
          THEN CutAtSuffix(content_disposition, start_index, TAR_STRING)
          ELSE Raise("ValueError", "Could not find file name in header.", <<>>)

RECURSIVE Concat(_)
Concat(pieces) == IF pieces = <<>> THEN <<>> ELSE Head(pieces) \o Concat(Tail(pieces))

\* Content-Disposition values: a disposition type or none, then the pieces of
\* such a header in any order
ATTACHMENT == <<"a","t","t","a","c","h","m","e","n","t",";"," ">>
HeaderPieces ==
    {FILENAME_STRING, QUOTE, <<"o","b","s">>, FITS_STRING, FTZ_STRING, TAR_STRING}
ContentDispositions ==
    {PyStr(a \o Concat(p)) : a \in {<<>>, ATTACHMENT}, p \in SeqsUpTo(HeaderPieces, MaxPieces)}
    \cup {None}

\* a behaviour of SpecFileName is one call of the extraction on a header
InitFileName ==
    /\ pc = "idle"
    /\ call \in {[op |-> "_extract_file_name_from_response_header", headers |-> h] :
                    h \in ContentDispositions}
    /\ Untouched

ExtractFileNameFromResponseHeaderCall ==
    /\ pc = "idle"
    /\ call.op = "_extract_file_name_from_response_header"
    /\ pc' = "done"
    /\ outcome' = Outcome(ExtractFileNameFromResponseHeader(call.headers))
    /\ UNCHANGED <<call, todo, sanatized, raised, query_result, region_outcome, maps, net,
                   tap_cache, self, fs>>

SpecFileName == InitFileName /\ [][ExtractFileNameFromResponseHeaderCall]_vars

KnownSuffixes == {FITS_STRING, FTZ_STRING, TAR_STRING}
Occurs(s, sub) == \E i \in 0..Len(s) : StartsAt(s, sub, i)
\* where the name starts: past the first "filename=" and one quote after it
NameStart(s) ==
    LET at == CHOOSE i \in 0..Len(s) :
                  StartsAt(s, FILENAME_STRING, i)
                  /\ \A j \in 0..(i - 1) : ~StartsAt(s, FILENAME_STRING, j)
        past == at + Len(FILENAME_STRING)
    IN  IF past < Len(s) /\ s[past + 1] = "\"" THEN past + 1 ELSE past

\* C14: with the header 'attachment; filename="obs.fits"' the extraction gives
\* 'obs.fits'; whatever it returns is the header text from the name start
\* (past "filename=" and one optional quote) through the end of the first
\* occurrence, from one character past the name start, of a known suffix; and
\* for a header that contains no known suffix it raises ValueError.
C14_FileNameFromHeader ==
    (pc = "done" /\ call.op = "_extract_file_name_from_response_header"
        /\ call.headers.t = "str") =>
        LET cd == call.headers.v
        IN  /\ (~\E x \in KnownSuffixes : Occurs(cd, x)) =>
                  (outcome.kind = "raise" /\ outcome.error.type = "ValueError")
            /\ outcome.kind = "return" =>
                  /\ Occurs(cd, FILENAME_STRING)
                  /\ \E x \in KnownSuffixes : \E e \in (NameStart(cd) + 1)..Len(cd) :
                        /\ StartsAt(cd, x, e)
                        /\ \A j \in (NameStart(cd) + 1)..(e - 1) : ~StartsAt(cd, x, j)
                        /\ outcome.value = PyStr(SubSeq(cd, NameStart(cd) + 1, e + Len(x)))

\* the example of the claim is extracted as the claim says
C14_Example ==
    /\ pc = "done"
    /\ call.op = "_extract_file_name_from_response_header"
    /\ call.headers = PyStr(ATTACHMENT \o FILENAME_STRING \o QUOTE \o <<"o","b","s">>
                                \o FITS_STRING \o QUOTE)
    /\ outcome.kind = "return"
    /\ outcome.value = PyStr(<<"o","b","s">> \o FITS_STRING)

\* ================================================ _get_herschel_observation
MaxMembers == 3    \* most members of the tar archive of an observation
MaxFilters == 2    \* most names in the filter list of an observation

HSPIRE == <<"h","s","p","i","r","e">>
HPACS == <<"h","p","a","c","s">>
\* tempfile.NamedTemporaryFile().name
TAR_FILE == <<"/","t","m","p","/","t","m","p","0">>
HDUList(path) == [t |-> "HDUList", path |-> path]

\* _remove_extra_herschel_directory: the name past its first "/"; str.index
\* raises ValueError without one. os.renames moves the extracted file there.
RemoveExtraHerschelDirectory(file_and_directory_name, directory_path) ==
    LET slash == Find(file_and_directory_name, SLASH, 0)
    IN  IF slash = -1 THEN Raise("ValueError", "substring not found", <<>>)
        ELSE Return(Slice(file_and_directory_name, slash + 1, Len(file_and_directory_name)),
                    <<>>)

RECURSIVE HerschelLoop_ByMemberIndex(_, _, _, _, _, _, _, _)
\* the loop with the filter taken at the member's position in the archive
HerschelLoop_ByMemberIndex(members, k, i, filters, directory_path, fault, observation, files) ==
    IF k > Len(members)
    THEN [kind |-> "return", value |-> observation, error |-> NoError, files |-> files]
    ELSE
      LET member_name == Lower(members[k])
          renamed == RemoveExtraHerschelDirectory(members[k], directory_path)
          failed(r) == [kind |-> "raise", value |-> None, error |-> r.error, files |-> files]
      IN  IF Find(member_name, HSPIRE, 0) # -1 \/ Find(member_name, HPACS, 0) # -1
          THEN IF fault = "extract" THEN failed(Raise("OSError", "extract", <<>>))
               ELSE IF renamed.kind = "raise"
               THEN [kind |-> "raise", value |-> None, error |-> renamed.error,
                     files |-> files \cup {directory_path \o members[k]}]
               ELSE IF k > Len(filters)
               THEN [kind |-> "raise", value |-> None,
                     error |-> Raise("IndexError", "list index out of range", <<>>).error,
                     files |-> files \cup {directory_path \o renamed.value}]
               ELSE HerschelLoop_ByMemberIndex(members, k + 1, i + 1, filters, directory_path,
                        fault,
                        Put(observation, filters[k], HDUList(directory_path \o renamed.value)),
                        files \cup {directory_path \o renamed.value})
          ELSE HerschelLoop_ByMemberIndex(members, k + 1, i, filters, directory_path, fault,
                                          observation, files)

RECURSIVE HerschelLoop(_, _, _, _, _, _, _, _)
\* the loop over tar.getmembers() from member k (1-based), with i filters
\* used so far (python's i), the observation built and the files written so
\* far; fault "extract": tar.extract raises. The right side of the assignment
\* (rename, fits.open) is evaluated before filters[i].
HerschelLoop(members, k, i, filters, directory_path, fault, observation, files) ==
    IF k > Len(members)
    THEN [kind |-> "return", value |-> observation, error |-> NoError, files |-> files]
    ELSE
      LET member_name == Lower(members[k])
          renamed == RemoveExtraHerschelDirectory(members[k], directory_path)
          failed(r) == [kind |-> "raise", value |-> None, error |-> r.error, files |-> files]
      IN  IF Find(member_name, HSPIRE, 0) # -1 \/ Find(member_name, HPACS, 0) # -1
          THEN IF fault = "extract" THEN failed(Raise("OSError", "extract", <<>>))
               ELSE IF renamed.kind = "raise"
               THEN [kind |-> "raise", value |-> None, error |-> renamed.error,
                     files |-> files \cup {directory_path \o members[k]}]
               ELSE IF i >= Len(filters)
               THEN [kind |-> "raise", value |-> None,
                     error |-> Raise("IndexError", "list index out of range", <<>>).error,
                     files |-> files \cup {directory_path \o renamed.value}]
               ELSE HerschelLoop(members, k + 1, i + 1, filters, directory_path, fault,
                        Put(observation, filters[i + 1],
                            HDUList(directory_path \o renamed.value)),
                        files \cup {directory_path \o renamed.value})
          ELSE HerschelLoop(members, k + 1, i, filters, directory_path, fault,
                            observation, files)

\* _get_herschel_observation on the archive the url serves; fault "http":
\* urlopen raises, "tar": tarfile.open raises. tar_file is never closed by the
\* code: the file goes when the object does. On a return the frame holds the
\* last reference and lets it go; a raised exception carries the frame, and
\* tar_file with it, in its traceback out of the call.
GetHerschelObservationFrom(archive, fault, product_url, directory_path, filters) ==
    LET requests == <<Request("product", product_url, 0)>>
        loop == HerschelLoop(archive, 1, 0, filters, directory_path, fault, <<>>, {})
    IN  IF fault = "http"
        THEN [kind |-> "raise", value |-> None,
              error |-> Raise("HTTPError", "urlopen error", <<>>).error,
              net |-> requests, files |-> {TAR_FILE}]
        ELSE IF fault = "tar"
        THEN [kind |-> "raise", value |-> None,
              error |-> Raise("ReadError", "file could not be opened", <<>>).error,
              net |-> requests, files |-> {TAR_FILE}]
        ELSE IF loop.kind = "raise"
        THEN [kind |-> "raise", value |-> None, error |-> loop.error,
              net |-> requests, files |-> loop.files \cup {TAR_FILE}]
        ELSE [kind |-> "return", value |-> loop.value, error |-> NoError,
              net |-> requests,
              files |-> loop.files]

\* member names of an archive: under a directory or not, of an instrument or not
MemberNames ==
    {<<"o","/","H","S","P","I","R","E">>, <<"o","/","h","p","a","c","s">>,
     <<"o","/","a","u","x">>, <<"h","p","a","c","s">>}
HerschelArchives == SeqsUpTo(MemberNames, MaxMembers)
\* str.split(",") gives at least one name
FilterLists == SeqsUpTo({"70", "160"}, MaxFilters) \ {<<>>}
HERSCHEL_DIRECTORY == CreateMissionDirectory(<<"H","e","r","s","c","h","e","l">>, MAPS_STRING)

\* a behaviour of SpecHerschel is the download of one Herschel observation
InitHerschel ==
    /\ pc = "idle"
    /\ call \in {[op |-> "_get_herschel_observation", product_url |-> "herschel_url",
                  directory_path |-> HERSCHEL_DIRECTORY \o SLASH, filters |-> f,
                  archive |-> a, fault |-> x] :
                    f \in FilterLists, a \in HerschelArchives,
                    x \in {"none", "http", "tar", "extract"}}
    /\ todo = <<>>
    /\ sanatized = None
    /\ raised = NoError
    /\ query_result = <<>>
    /\ region_outcome = NoOutcome
    /\ maps = <<>>
    /\ outcome = Outcome(NoOutcome)
    /\ net = <<>>
    /\ tap_cache = <<>>
    /\ self = <<>>
    /\ fs = {HERSCHEL_DIRECTORY}

GetHerschelObservationCall ==
    /\ pc = "idle"
    /\ call.op = "_get_herschel_observation"
    /\ LET r == GetHerschelObservationFrom(call.archive, call.fault, call.product_url,
                                           call.directory_path, call.filters)
       IN  /\ pc' = "done"
           /\ outcome' = Outcome(r)
           /\ net' = r.net
           /\ fs' = fs \cup r.files
    /\ UNCHANGED <<call, todo, sanatized, raised, query_result, region_outcome, maps,
                   tap_cache, self>>

SpecHerschel == InitHerschel /\ [][GetHerschelObservationCall]_vars

\* the member's lowercased name contains 'hspire' or 'hpacs'
IsInstrumentMember(name) ==
    \E x \in {HSPIRE, HPACS} : \E p \in 1..Len(name) :
        /\ p + Len(x) - 1 <= Len(name)
        /\ \A q \in 1..Len(x) : CharLower(name[p + q - 1]) = x[q]
MatchingMembers(archive) == SelectSeq(archive, IsInstrumentMember)
PastFirstSlash(name) ==
    LET at == CHOOSE p \in 1..Len(name) : name[p] = "/" /\ \A q \in 1..(p - 1) : name[q] # "/"
    IN  SubSeq(name, at + 1, Len(name))

\* C11: when the download of a Herschel observation returns, the archive
\* having N members whose lowercased name contains 'hspire' or 'hpacs', the
\* first N names of the filter list have been assigned, the i-th of them to
\* the i-th such member in archive order (a name listed twice keeps the later
\* member), so with N different names the result has exactly N entries; and
\* when the filter list has fewer than N names the download raises.
C11_FiltersAssignedInOrder ==
    (pc = "done" /\ call.op = "_get_herschel_observation") =>
        LET matching == MatchingMembers(call.archive)
            N == Len(matching)
            filters == call.filters
            Opened(i) == HDUList(call.directory_path \o PastFirstSlash(matching[i]))
        IN  /\ Len(filters) < N => outcome.kind = "raise"
            /\ outcome.kind = "return" =>
                  /\ N <= Len(filters)
                  /\ {outcome.value[j][1] : j \in 1..Len(outcome.value)} =
                        {filters[i] : i \in 1..N}
                  /\ \A i \in 1..N :
                        (\A j \in (i + 1)..N : filters[j] # filters[i]) =>
                            Get(outcome.value, filters[i]) = Opened(i)
                  /\ (\A i, j \in 1..N : i # j => filters[i] # filters[j]) =>
                        Len(outcome.value) = N

\* two instrument members around another one, stored under two filter names
C11_Witness ==
    /\ pc = "done"
    /\ call.op = "_get_herschel_observation"
    /\ call.archive = <<<<"o","/","H","S","P","I","R","E">>, <<"o","/","a","u","x">>,
                        <<"o","/","h","p","a","c","s">>>>
    /\ call.filters = <<"70", "160">>
    /\ outcome.kind = "return"
    /\ Get(outcome.value, "160") = HDUList(call.directory_path \o <<"h","p","a","c","s">>)

\* more instrument members than filter names: the download raises
C11_Exhausted ==
    /\ pc = "done"
    /\ call.op = "_get_herschel_observation"
    /\ call.fault = "none"
    /\ Len(MatchingMembers(call.archive)) > Len(call.filters)
    /\ outcome.kind = "raise"
    /\ outcome.error.type = "IndexError"

\* C13: when control leaves the download of a Herschel observation, by a
\* return or by an exception, the scratch file of the archive is gone.
C13_ScratchFileRemoved ==
    (pc = "done" /\ call.op = "_get_herschel_observation") => TAR_FILE \notin fs

\* the download returned and left no scratch file
C13_RemovedOnReturn ==
    /\ pc = "done"
    /\ call.op = "_get_herschel_observation"
    /\ outcome.kind = "return"
    /\ Len(outcome.value) > 0
    /\ TAR_FILE \notin fs

\* ======================================= one instance, one call after another
\* selectors of the calls of a session: a name, "all", no name, two names
SessionSelectors(names) ==
    {PyStr(CHOOSE n \in names : Lower(n) \in {<<"h","s","t">>, <<"g","a","i","a">>}),
     PyStr(<<"A","l","l">>), PyList(<<>>),
     PyList([i \in 1..2 |-> PyStr(CHOOSE n \in names :
                Lower(n) = IF i = 1 THEN HERSCHEL_STRING ELSE <<"h","s","t">>)])}
ValidPosition == CHOOSE p \in Positions : p.t = "SkyCoord"
ValidRadius == CHOOSE r \in Radii : r.t = "Quantity"

\* query_region_maps on an instance that may have been used before
QueryRegionMapsInSession ==
    /\ pc = "idle"
    /\ \E missions \in SessionSelectors(MissionNames), get_query_payload \in BOOLEAN,
          fetchOk \in BOOLEAN :
        EnterQueryRegion("query_region_maps", ValidPosition, ValidRadius, missions,
                         get_query_payload, <<>>, fetchOk)

\* query_region_catalogs on an instance that may have been used before
QueryRegionCatalogsInSession ==
    /\ pc = "idle"
    /\ \E catalogs \in {PyStr(<<"g","a","i","a">>), PyStr(<<"A","l","l">>), PyList(<<>>),
                         PyList(<<PyStr(<<"H","s","c">>), PyStr(<<"g","a","i","a">>)>>)},
          get_query_payload \in BOOLEAN, fetchOk \in BOOLEAN :
        EnterQueryRegion("query_region_catalogs", ValidPosition, ValidRadius, catalogs,
                         get_query_payload, <<>>, fetchOk)

\* the caller has got the result or the exception of a call and may call again;
\* the instance and the file system stay as the call left them
NextCall ==
    /\ pc = "done"
    /\ pc' = "idle"
    /\ UNCHANGED <<call, todo, sanatized, raised, query_result, region_outcome, maps,
                   outcome, net, tap_cache, self, fs>>

NextSession ==
    \/ QueryRegionMapsInSession
    \/ QueryRegionCatalogsInSession
    \/ StoreQueryResult
    \/ QueryReturn
    \/ NextCall

SpecSession == Init /\ [][NextSession]_vars

RegionOps == {"query_region_maps", "query_region_catalogs"}
SelectsAll == call.selector.t = "str" /\ SameIgnoringCase(call.selector.v, ALL_STRING)

\* C16 as stated: a query_region_maps / query_region_catalogs call that has
\* returned has fetched the registry document once, whatever the selector.
C16_SingleFetchPerCall ==
    (pc = "done" /\ call.op \in RegionOps /\ outcome.kind = "return") =>
        CountRequests("registry") = 1

\* C16 amended: every lookup in the registry fetches the document; a
\* query_region_maps / query_region_catalogs call, the first on an instance or
\* a later one, has fetched it twice for each name it has gone through (to
\* resolve the name, then to find the descriptor) and once more when the
\* selector is "all"; a name whose processing raised adds at most two.
C16_TwoFetchesPerName ==
    (call.op \in RegionOps /\ sanatized # None) =>
        LET base == (IF SelectsAll THEN 1 ELSE 0) + 2 * Len(QueriedNames)
        IN  IF outcome.kind = "raise"
            THEN CountRequests("registry") \in base..(base + 2)
            ELSE CountRequests("registry") = base

\* a later call on the instance (an earlier one left the response it could
\* not parse) has returned the tables of two missions and fetched four times
C16_Witness ==
    /\ pc = "done"
    /\ call.op = "query_region_maps"
    /\ HasKey(self, "response")
    /\ outcome.kind = "return"
    /\ Len(sanatized.v) = 2
    /\ CountRequests("registry") = 4

====
